---------------------------- MODULE Spec2Model ----------------------------
(***************************************************************************)
(* The Streamlit script main.py as a state machine.  Every browser session *)
(* runs the script top to bottom in a thread of its own; the threads share *)
(* the two st.cache memo tables (get_data, get_availability).  One action  *)
(* per section of the script; the two cached calls are split into the      *)
(* lookup and the computation, which is where threads interleave.          *)
(* pandas and Streamlit calls are modelled by their documented behaviour.  *)
(*                                                                         *)
(*   Spec         sessions opening the page at once, one CSV               *)
(*   SpecReruns   one session rerunning the script, one CSV                *)
(*   SpecSession  one session running the script, every CSV in the bounds  *)
(***************************************************************************)
EXTENDS Integers, Sequences, FiniteSets, TLC

\* ------------------------------------------------------------------ bounds
MaxRows == 4        \* rows of the CSV behind the URL
MaxReviews == 2     \* largest number typed into the Minimum / Maximum inputs
NumSessions == 2    \* browser sessions of the concurrent specification

\* ------------------------------------------------------- program constants
NaN == -1                 \* pandas' marker of an absent numeric cell
ExpensiveFrom == 800      \* "price>=800"
CheapBelow == 200         \* " and price<200"
HeadDefault == 5          \* DataFrame.head()
HeadReviews == 50         \* .head(50)
SampleSize == 2           \* .sample(2, random_state=4)
SliderLow == 50           \* default (50., 300.)
SliderHigh == 300
ClipUpper == 1000         \* df.price.clip(upper=1000.)
Unbound == NaN            \* a script variable not assigned yet in this run

Sessions == 1..NumSessions

\* --------------------------------------------------------------- the data
\* Listings the CSV may hold (id is the row's position in the file).
\* Coordinates are whole degrees; 73 stands for the longitude's magnitude.
Listings ==
  { [host_id |-> 1, neighbourhood_group |-> "Bronx", room_type |-> "Private room",
     latitude |-> 40, longitude |-> 73, price |-> 50,
     number_of_reviews |-> 1, availability_365 |-> 100],
    [host_id |-> 1, neighbourhood_group |-> "Bronx", room_type |-> "Entire home/apt",
     latitude |-> NaN, longitude |-> 73, price |-> 800,
     number_of_reviews |-> 1, availability_365 |-> 365],
    [host_id |-> 2, neighbourhood_group |-> "Queens", room_type |-> "Entire home/apt",
     latitude |-> 40, longitude |-> 73, price |-> 300,
     number_of_reviews |-> 0, availability_365 |-> 0],
    [host_id |-> 2, neighbourhood_group |-> "Bronx", room_type |-> "Private room",
     latitude |-> 40, longitude |-> NaN, price |-> NaN,
     number_of_reviews |-> 2, availability_365 |-> 200] }

WithId(l, i) ==
  [id |-> i, host_id |-> l.host_id, neighbourhood_group |-> l.neighbourhood_group,
   room_type |-> l.room_type, latitude |-> l.latitude, longitude |-> l.longitude,
   price |-> l.price, number_of_reviews |-> l.number_of_reviews,
   availability_365 |-> l.availability_365]

\* pd.read_csv(url): the file's rows in file order.
Tables ==
  UNION { { [i \in 1..n |-> WithId(f[i], i)] : f \in [1..n -> Listings] } : n \in 0..MaxRows }

Groups == { l.neighbourhood_group : l \in Listings }
Hosts == { l.host_id : l \in Listings }

\* ------------------------------------------------------ sequence helpers
Range(s) == { s[i] : i \in DOMAIN s }
Min2(a, b) == IF a <= b THEN a ELSE b
Head_(t, n) == SubSeq(t, 1, Min2(n, Len(t)))
RECURSIVE Sum(_)
Sum(xs) == IF xs = <<>> THEN 0 ELSE Head(xs) + Sum(Tail(xs))
Column(t, column) == [i \in DOMAIN t |-> t[i][column]]


\* ----------------------------------------------------------- Query Engine
\* Comparisons as DataFrame.query evaluates them: against NaN, always false.
Ge(x, y) == x # NaN /\ y # NaN /\ x >= y
Gt(x, y) == x # NaN /\ y # NaN /\ x > y
\* Variant of Lt: NaN compared as the number that marks it.
LtNaNAsNumber(x, y) == x < y
Lt(x, y) == x # NaN /\ y # NaN /\ x < y
Between(x, lo, hi) == Ge(x, lo) /\ Ge(hi, x)

\* df.query(expr) is SelectSeq: the rows for which expr holds, in the frame's order.

\* df.query("price>=800")
Expensive(t) == SelectSeq(t, LAMBDA r : Ge(r.price, ExpensiveFrom))

\* [["latitude", "longitude"]].dropna(how="any")
Located(t) ==
  LET present == SelectSeq(t, LAMBDA r : r.latitude # NaN /\ r.longitude # NaN)
  IN [i \in 1..Len(present) |->
        [id |-> present[i].id, latitude |-> present[i].latitude,
         longitude |-> present[i].longitude]]

\* sort_values(column, ascending=False) with the default kind="quicksort",
\* which is not a stable sort: every arrangement of the rows with the column
\* non-increasing is an outcome (NaN, the least value here, goes last).
Arrangements(rows, column) ==
  LET RECURSIVE Arrange(_)
      Arrange(R) ==
        IF R = {} THEN {<<>>}
        ELSE LET top == { r \in R : \A q \in R : r[column] >= q[column] }
             IN UNION { { <<r>> \o u : u \in Arrange(R \ {r}) } : r \in top }
  IN Arrange(rows)
SortValuesDescending(t, column) == Arrangements(Range(t), column)

\* The one arrangement a stable descending sort gives: ties in original order.
StableDescending(t, column) ==
  CHOOSE u \in SortValuesDescending(t, column) :
    \A i, j \in 1..Len(u) :
      (i < j /\ u[i][column] = u[j][column]) => u[i].id < u[j].id

\* df.query("price>=800").sort_values("price", ascending=False).head()
TopExpensive(t) ==
  { Head_(u, HeadDefault) : u \in SortValuesDescending(Expensive(t), "price") }

\* Variant of ReviewedBetween: the lower bound exclusive.
ReviewedAboveLow(t, lo, hi) ==
  SelectSeq(t, LAMBDA r : Gt(r.number_of_reviews, lo) /\ Ge(hi, r.number_of_reviews))
\* df.query("@minimum<=number_of_reviews<=@maximum")
ReviewedBetween(t, lo, hi) ==
  SelectSeq(t, LAMBDA r : Between(r.number_of_reviews, lo, hi))

\* ....sort_values("number_of_reviews", ascending=False).head(50)
TopReviewed(t, lo, hi) ==
  { Head_(u, HeadReviews) : u \in SortValuesDescending(ReviewedBetween(t, lo, hi), "number_of_reviews") }

\* df.query(f"price.between{values}")
PricedBetween(t, range) ==
  SelectSeq(t, LAMBDA r : Between(r.price, range[1], range[2]))

\* df.groupby("room_type").price.mean().reset_index().round(2): one row per
\* room type present, NaN prices left out of the mean, in hundredths (cents);
\* a room type whose prices are all NaN has mean NaN.  Then
\* .sort_values("price", ascending=False).
MeanPriceByRoomType(t) ==
  LET types == { r.room_type : r \in Range(t) }
      priced(rt) == Column(SelectSeq(t, LAMBDA r : r.room_type = rt /\ r.price # NaN), "price")
      cents(rt) == IF priced(rt) = <<>> THEN NaN
                   ELSE (200 * Sum(priced(rt)) + Len(priced(rt))) \div (2 * Len(priced(rt)))
  IN Arrangements({ [room_type |-> rt, price |-> cents(rt)] : rt \in types }, "price")

\* .assign(avg_price=lambda x: x.pop("price").apply("%.2f" % y)): assign works
\* on a copy of the frame; the lambda pops "price" out of that copy.
AssignAvgPrice(g) ==
  [i \in 1..Len(g) |-> [room_type |-> g[i].room_type, avg_price |-> g[i].price]]

\* df.host_id.value_counts(): hosts by listing count, largest first (ties in
\* the order the unstable default sort leaves them).
ListingCount(t, h) == Cardinality({ i \in DOMAIN t : t[i].host_id = h })
ValueCounts(t) ==
  LET hosts == { r.host_id : r \in Range(t) }
      n == Cardinality(hosts)
  IN { s \in [1..n -> hosts] :
         /\ \A i, j \in 1..n : i # j => s[i] # s[j]
         /\ \A i, j \in 1..n : i < j => ListingCount(t, s[i]) >= ListingCount(t, s[j]) }

\* df.query('host_id==@h')
ListingsOf(t, h) == SelectSeq(t, LAMBDA r : r.host_id = h)

\* Variant of Sample: drawn with replacement (replace=True).
SampleWithReplacement(t, k) ==
  IF k > Len(t) THEN {} ELSE { [i \in 1..k |-> t[q[i]]] : q \in [1..k -> DOMAIN t] }
\* frame.sample(k, random_state=4): k rows drawn without replacement, in the
\* order drawn; ValueError when the frame has fewer than k rows.  The draw a
\* seed gives is not modelled: every draw of k distinct rows is an outcome.
Sample(t, k) ==
  IF k > Len(t) THEN {}
  ELSE { [i \in 1..k |-> t[p[i]]] :
           p \in { q \in [1..k -> DOMAIN t] : \A i, j \in 1..k : i # j => q[i] # q[j] } }

\* Series.describe(percentiles=[.1, .25, .5, .75, .9, .99]) of availability_365.
\* mean and variance are fractions (num/den, 0/0 being NaN; std is the root of
\* the variance, kept squared); percentiles are in hundredths of a day, linear
\* interpolation between order statistics; min, max and the percentiles of an
\* empty series are NaN.
Ascending(xs) ==
  LET RECURSIVE Ascend(_)
      Ascend(I) ==
        IF I = {} THEN <<>>
        ELSE LET i == CHOOSE i \in I : \A j \in I : xs[i] <= xs[j]
             IN <<xs[i]>> \o Ascend(I \ {i})
  IN Ascend(DOMAIN xs)
Percentile(a, pct) ==
  IF Len(a) = 0 THEN NaN
  ELSE LET pos == pct * (Len(a) - 1)
           lo == (pos \div 100) + 1
           frac == pos % 100
       IN IF frac = 0 THEN 100 * a[lo]
          ELSE 100 * a[lo] + frac * (a[lo + 1] - a[lo])
Describe(t) ==
  LET xs == Column(t, "availability_365")
      a == Ascending(xs)
      n == Len(xs)
      sum == Sum(xs)
      squares == Sum([i \in DOMAIN xs |-> xs[i] * xs[i]])
  IN [count |-> n,
      mean |-> [num |-> sum, den |-> n],
      var |-> [num |-> n * squares - sum * sum, den |-> n * (n - 1)],
      min |-> IF n = 0 THEN NaN ELSE a[1],
      p10 |-> Percentile(a, 10), p25 |-> Percentile(a, 25),
      p50 |-> Percentile(a, 50), p75 |-> Percentile(a, 75),
      p90 |-> Percentile(a, 90), p99 |-> Percentile(a, 99),
      max |-> IF n = 0 THEN NaN ELSE a[n]]

\* The body of get_availability(show_exp, neighborhood): show_exp is the
\* query fragment, " and price<200" or "".
AvailabilityRows(t, show_exp, neighborhood) ==
  SelectSeq(t, LAMBDA r : /\ r.neighbourhood_group = neighborhood
                      /\ (show_exp = " and price<200" => Lt(r.price, CheapBelow))
                      /\ Gt(r.availability_365, 0))
get_availability(t, show_exp, neighborhood) ==
  Describe(AvailabilityRows(t, show_exp, neighborhood))

\* df.query("availability_365>0").groupby("neighbourhood_group").availability_365.mean()
MeanAvailabilityByGroup(t) ==
  LET open == SelectSeq(t, LAMBDA r : Gt(r.availability_365, 0))
      days(g) == Column(SelectSeq(open, LAMBDA r : r.neighbourhood_group = g), "availability_365")
  IN { [neighbourhood_group |-> g, mean |-> [num |-> Sum(days(g)), den |-> Len(days(g))]] :
       g \in { r.neighbourhood_group : r \in Range(open) } }

\* float(df.price.min()), float(df.price.clip(upper=1000.).max()): NaN cells
\* are skipped; NaN when no price is present.
Prices(t) == { r.price : r \in Range(t) } \ {NaN}
PriceMin(t) == IF Prices(t) = {} THEN NaN
               ELSE CHOOSE x \in Prices(t) : \A y \in Prices(t) : x <= y
PriceMaxClipped(t) ==
  IF Prices(t) = {} THEN NaN
  ELSE Min2(CHOOSE x \in Prices(t) : \A y \in Prices(t) : x >= y, ClipUpper)

\* The range slider: bounds from the data, default (50., 300.); the widget
\* raises StreamlitAPIException unless min <= 50 <= 300 <= max, and hands back
\* a pair in ascending order.  Thumb positions tried: the two defaults.
SliderAccepts(t) ==
  /\ PriceMin(t) # NaN
  /\ PriceMin(t) <= SliderLow
  /\ SliderHigh <= PriceMaxClipped(t)
SliderRanges(t) ==
  LET stops == { x \in {SliderLow, SliderHigh} : PriceMin(t) <= x /\ x <= PriceMaxClipped(t) }
  IN { r \in stops \X stops : r[1] <= r[2] }

\* st.radio("Neighborhood", df.neighbourhood_group.unique())
RadioOptions(t) == { r.neighbourhood_group : r \in Range(t) }

\* ------------------------------------------------------------- the state
VARIABLES
  remote,              \* the CSV behind the URL
  get_data_cache,      \* st.cache's entries for get_data: [key, value]
  availability_cache,  \* st.cache's entries for get_availability
  fetches,             \* pd.read_csv calls made so far
  computes,            \* runs of get_availability's body, per key
  pc,                  \* per session: the script section to run next
  df,                  \* per session: the script's df
  values,              \* per session: the price range slider's pair
  neighborhood,        \* per session
  show_exp,            \* per session: " and price<200" or ""
  minimum,             \* per session
  maximum,             \* per session
  out                  \* per session: what the section just run displayed

vars == <<remote, get_data_cache, availability_cache, fetches, computes, pc, df,
          values, neighborhood, show_exp, minimum, maximum, out>>
shared == <<remote, get_data_cache, availability_cache, fetches, computes>>
widgets == <<values, neighborhood, show_exp, minimum, maximum>>

ShowExpValues == {" and price<200", ""}
Keys == ShowExpValues \X Groups
Nothing == [view |-> "none"]

\* Variant of Lookup: only the last argument is hashed.
LookupByLastArgument(cache, key) ==
  { e \in cache : Len(key) = 0 \/ e.key[Len(key)] = key[Len(key)] }
\* st.cache: an entry is found by the hash of the call's argument values.
Lookup(cache, key) == { e \in cache : e.key = key }
Write(cache, key, value) ==
  { e \in cache : e.key # key } \cup {[key |-> key, value |-> value]}

Init ==
  /\ remote \in Tables
  /\ get_data_cache = {}
  /\ availability_cache = {}
  /\ fetches = 0
  /\ computes = [k \in Keys |-> 0]
  /\ pc = [s \in Sessions |-> "get_data"]
  /\ df = [s \in Sessions |-> <<>>]
  /\ values = [s \in Sessions |-> <<>>]
  /\ neighborhood = [s \in Sessions |-> ""]
  /\ show_exp = [s \in Sessions |-> "unbound"]
  /\ minimum = [s \in Sessions |-> Unbound]
  /\ maximum = [s \in Sessions |-> Unbound]
  /\ out = [s \in Sessions |-> Nothing]

Goto(s, label) == pc' = [pc EXCEPT ![s] = label]
Show(s, view) == out' = [out EXCEPT ![s] = view]
\* An uncaught exception ends the run; Streamlit displays it.
Raise(s, error) ==
  /\ Show(s, [view |-> "exception", error |-> error])
  /\ Goto(s, "done")

\* df = get_data(), the cache lookup: a hit returns the cached value.
GetData(s) ==
  /\ pc[s] = "get_data"
  /\ IF Lookup(get_data_cache, <<>>) # {}
       THEN /\ \E e \in Lookup(get_data_cache, <<>>) : df' = [df EXCEPT ![s] = e.value]
            /\ Goto(s, "map")
       ELSE /\ Goto(s, "read_csv")
            /\ UNCHANGED df
  /\ UNCHANGED <<shared, widgets, out>>

\* df = get_data(), after a miss: the body runs and its value is stored.
ReadCsv(s) ==
  /\ pc[s] = "read_csv"
  /\ fetches' = fetches + 1
  /\ get_data_cache' = Write(get_data_cache, <<>>, remote)
  /\ df' = [df EXCEPT ![s] = remote]
  /\ Goto(s, "map")
  /\ UNCHANGED <<remote, availability_cache, computes, widgets, out>>

ShowMap(s) ==
  /\ pc[s] = "map"
  /\ Show(s, [view |-> "map", rows |-> Located(Expensive(df[s]))])
  /\ Goto(s, "top5")
  /\ UNCHANGED <<shared, df, widgets>>

ShowTopExpensive(s) ==
  /\ pc[s] = "top5"
  /\ \E u \in TopExpensive(df[s]) : Show(s, [view |-> "top5", rows |-> u])
  /\ Goto(s, "avg_price")
  /\ UNCHANGED <<shared, df, widgets>>

\* Variant of ShowAveragePrice: "price" is popped out of df itself.
Popped(t) ==
  [i \in DOMAIN t |->
     [id |-> t[i].id, host_id |-> t[i].host_id,
      neighbourhood_group |-> t[i].neighbourhood_group, room_type |-> t[i].room_type,
      latitude |-> t[i].latitude, longitude |-> t[i].longitude,
      number_of_reviews |-> t[i].number_of_reviews,
      availability_365 |-> t[i].availability_365]]
ShowAveragePricePoppingDf(s) ==
  /\ pc[s] = "avg_price"
  /\ \E g \in MeanPriceByRoomType(df[s]) :
       Show(s, [view |-> "avg_price", rows |-> AssignAvgPrice(g)])
  /\ df' = [df EXCEPT ![s] = Popped(df[s])]
  /\ Goto(s, "hosts")
  /\ UNCHANGED <<shared, widgets>>

\* Lines 74-76.
ShowAveragePrice(s) ==
  /\ pc[s] = "avg_price"
  /\ \E g \in MeanPriceByRoomType(df[s]) :
       Show(s, [view |-> "avg_price", rows |-> AssignAvgPrice(g)])
  /\ Goto(s, "hosts")
  /\ UNCHANGED <<shared, df, widgets>>

\* Lines 81-94.  IndexError: listingcounts.index[1] with fewer than two hosts,
\* top_host_2.iloc[1] with a second host of one listing.
ShowTopHosts(s) ==
  /\ pc[s] = "hosts"
  /\ \E listingcounts \in ValueCounts(df[s]) :
       IF Len(listingcounts) < 2
         THEN Raise(s, "IndexError")
         ELSE LET top_host_1 == ListingsOf(df[s], listingcounts[1])
                  top_host_2 == ListingsOf(df[s], listingcounts[2])
              IN IF Len(top_host_2) < 2
                   THEN Raise(s, "IndexError")
                   ELSE IF Sample(top_host_1, SampleSize) = {}
                             \/ Sample(top_host_2, SampleSize) = {}
                          THEN Raise(s, "ValueError")
                          ELSE /\ \E a \in Sample(top_host_1, SampleSize),
                                     b \in Sample(top_host_2, SampleSize) :
                                    Show(s, [view |-> "hosts", hosts |-> listingcounts,
                                             first |-> a, second |-> b])
                               /\ Goto(s, "histogram")
  /\ UNCHANGED <<shared, df, widgets>>

PriceHistogram(s) ==
  /\ pc[s] = "histogram"
  /\ IF SliderAccepts(df[s])
       THEN \E range \in SliderRanges(df[s]) :
              /\ values' = [values EXCEPT ![s] = range]
              /\ Show(s, [view |-> "histogram", range |-> range,
                          rows |-> PricedBetween(df[s], range)])
              /\ Goto(s, "availability")
       ELSE /\ Raise(s, "StreamlitAPIException")
            /\ UNCHANGED values
  /\ UNCHANGED <<shared, df, neighborhood, show_exp, minimum, maximum>>

\* Lines 120-136 up to the cache lookup of get_availability(show_exp, neighborhood).
Availability(s) ==
  /\ pc[s] = "availability"
  /\ \E option \in RadioOptions(df[s]), checked \in BOOLEAN :
       LET fragment == IF ~checked THEN " and price<200" ELSE ""
           hit == Lookup(availability_cache, <<fragment, option>>)
       IN /\ neighborhood' = [neighborhood EXCEPT ![s] = option]
          /\ show_exp' = [show_exp EXCEPT ![s] = fragment]
          /\ IF hit # {}
               THEN /\ \E e \in hit : Show(s, [view |-> "availability", summary |-> e.value])
                    /\ Goto(s, "plot")
               ELSE /\ Goto(s, "describe")
                    /\ UNCHANGED out
  /\ UNCHANGED <<shared, df, values, minimum, maximum>>

\* After a miss: the body of get_availability runs and its value is stored.
ComputeAvailability(s) ==
  /\ pc[s] = "describe"
  /\ LET key == <<show_exp[s], neighborhood[s]>>
         value == get_availability(df[s], show_exp[s], neighborhood[s])
     IN /\ computes' = [computes EXCEPT ![key] = @ + 1]
        /\ availability_cache' = Write(availability_cache, key, value)
        /\ Show(s, [view |-> "availability", summary |-> value])
  /\ Goto(s, "plot")
  /\ UNCHANGED <<remote, get_data_cache, fetches, df, widgets>>

PlotAvailability(s) ==
  /\ pc[s] = "plot"
  /\ Show(s, [view |-> "plot", bars |-> MeanAvailabilityByGroup(df[s])])
  /\ Goto(s, "reviews")
  /\ UNCHANGED <<shared, df, widgets>>

\* Variant of ReviewQuery: the query runs without the check of line 156.
ReviewQueryUnchecked(s) ==
  /\ pc[s] = "reviews"
  /\ \E lo \in 0..MaxReviews, hi \in 0..MaxReviews :
       /\ minimum' = [minimum EXCEPT ![s] = lo]
       /\ maximum' = [maximum EXCEPT ![s] = hi]
       /\ \E u \in TopReviewed(df[s], lo, hi) :
            Show(s, [view |-> "reviews", range |-> <<lo, hi>>, rows |-> u])
  /\ Goto(s, "done")
  /\ UNCHANGED <<shared, df, values, neighborhood, show_exp>>

\* Lines 153-161.
ReviewQuery(s) ==
  /\ pc[s] = "reviews"
  /\ \E lo \in 0..MaxReviews, hi \in 0..MaxReviews :
       /\ minimum' = [minimum EXCEPT ![s] = lo]
       /\ maximum' = [maximum EXCEPT ![s] = hi]
       /\ IF lo > hi
            THEN Show(s, [view |-> "error", message |-> "Please enter a valid range"])
            ELSE \E u \in TopReviewed(df[s], lo, hi) :
                   Show(s, [view |-> "reviews", range |-> <<lo, hi>>, rows |-> u])
  /\ Goto(s, "done")
  /\ UNCHANGED <<shared, df, values, neighborhood, show_exp>>

\* A widget change or a reload runs the script again, in a fresh namespace.
Rerun(s) ==
  /\ pc[s] = "done"
  /\ Goto(s, "get_data")
  /\ df' = [df EXCEPT ![s] = <<>>]
  /\ values' = [values EXCEPT ![s] = <<>>]
  /\ neighborhood' = [neighborhood EXCEPT ![s] = ""]
  /\ show_exp' = [show_exp EXCEPT ![s] = "unbound"]
  /\ minimum' = [minimum EXCEPT ![s] = Unbound]
  /\ maximum' = [maximum EXCEPT ![s] = Unbound]
  /\ Show(s, Nothing)
  /\ UNCHANGED shared

\* One run of the script, top to bottom.
Script(s) ==
  \/ GetData(s) \/ ReadCsv(s) \/ ShowMap(s) \/ ShowTopExpensive(s)
  \/ ShowAveragePrice(s) \/ ShowTopHosts(s) \/ PriceHistogram(s)
  \/ Availability(s) \/ ComputeAvailability(s) \/ PlotAvailability(s)
  \/ ReviewQuery(s)

\* Browser sessions opening the page at once, each a thread running the
\* script, over a CSV on which the script runs to its end.
Snapshot ==
  CHOOSE t \in Tables :
    /\ Len(t) = MaxRows
    /\ \A i \in 1..Len(t) : i % 4 = 1 => t[i].price = SliderLow
    /\ \A i \in 1..Len(t) : i % 4 = 2 => t[i].price = ExpensiveFrom
    /\ \A i \in 1..Len(t) : i % 4 = 3 => t[i].price = SliderHigh
    /\ \A i \in 1..Len(t) : i % 4 = 0 => t[i].price = NaN
InitSnapshot == Init /\ remote = Snapshot
Next == \E s \in Sessions : Script(s)
Spec == InitSnapshot /\ [][Next]_vars

\* One browser session rerunning the script (a widget change, a reload).
NextReruns == Script(1) \/ Rerun(1)
SpecReruns == InitSnapshot /\ [][NextReruns]_vars

\* One browser session loading the page, over every CSV within the bounds.
NextSession == Script(1)
SpecSession == Init /\ [][NextSession]_vars


\* ------------------------------------------------------------ properties
\* The session's df = get_data() has returned.
Loaded(s) == pc[s] \notin {"get_data", "read_csv"}
\* The rows of a frame keep the frame's order.
InFileOrder(rows) == \A i, j \in DOMAIN rows : i < j => rows[i].id < rows[j].id
\* Fewer than two hosts have two listings or more: one of the two top hosts
\* has fewer than SampleSize listings (or there is no second host).
TopHostsTooSmall(t) ==
  Cardinality({ h \in Hosts : ListingCount(t, h) >= SampleSize }) < 2

\* C1: once any session's get_data() call has returned, pd.read_csv has run
\* exactly once, and all sessions whose call has returned hold the same Table.
C1_SingleFetch ==
  \A s \in Sessions :
    Loaded(s) => /\ fetches = 1
                 /\ \A r \in Sessions : Loaded(r) => df[r] = df[s]

\* C2: for every key (show_exp, neighborhood), once a session has been given
\* the result for that key, the body of get_availability has run exactly once
\* for it.
C2_ComputedOnce ==
  \A s \in Sessions :
    (pc[s] = "plot" /\ out[s].view = "availability")
      => computes[<<show_exp[s], neighborhood[s]>>] = 1

\* C3: the Derived-View Cache never answers with another key's result: every
\* entry holds the result computed from its own (show_exp, neighborhood), and
\* the summary a session is shown is the one computed from its own parameters.
C3_NoKeyCollision ==
  /\ \A e \in availability_cache :
       e.value = get_availability(remote, e.key[1], e.key[2])
  /\ \A s \in Sessions :
       (pc[s] = "plot" /\ out[s].view = "availability")
         => out[s].summary = get_availability(df[s], show_exp[s], neighborhood[s])
C3_Witness ==
  \E s \in Sessions :
    /\ pc[s] = "plot" /\ out[s].view = "availability"
    /\ \E e \in availability_cache :
         /\ e.key[2] = neighborhood[s] /\ e.key[1] # show_exp[s]
         /\ e.value # out[s].summary
    /\ \E e \in availability_cache : e.key[2] # neighborhood[s]

\* C4: with minimum > maximum the error is shown and no review query result;
\* with minimum <= maximum the query runs and returns every row whose review
\* count lies in [minimum, maximum] (all of them shown while no more than 50).
C4_RangeChecked ==
  \A s \in Sessions :
    minimum[s] # Unbound =>
      IF minimum[s] > maximum[s]
        THEN out[s] = [view |-> "error", message |-> "Please enter a valid range"]
        ELSE LET inRange == { r \in Range(df[s]) :
                                /\ minimum[s] <= r.number_of_reviews
                                /\ r.number_of_reviews <= maximum[s] }
             IN /\ out[s].view = "reviews"
                /\ Range(out[s].rows) \subseteq inRange
                /\ Cardinality(inRange) <= HeadReviews => Range(out[s].rows) = inRange
C4_Witness ==
  \E s \in Sessions :
    /\ out[s].view = "reviews" /\ minimum[s] < maximum[s]
    /\ Len(out[s].rows) >= 2 /\ Len(out[s].rows) < Len(df[s])
    /\ \E r \in Range(out[s].rows) : r.number_of_reviews = minimum[s]
    /\ \E r \in Range(out[s].rows) : r.number_of_reviews = maximum[s]

\* C5: when the selection of get_availability matches no row, describe fails
\* (the run ends in an exception); a summary with NaN in it is never shown.
C5_DescribeEmptyFails ==
  \A s \in Sessions :
    (pc[s] = "plot" /\ out[s].view = "availability")
      => /\ AvailabilityRows(df[s], show_exp[s], neighborhood[s]) # <<>>
         /\ out[s].summary.count > 0
         /\ out[s].summary.mean.den # 0
         /\ out[s].summary.min # NaN

C7_TopNStable ==
  \A s \in Sessions :
    /\ out[s].view = "top5"
         => out[s].rows = Head_(StableDescending(Expensive(df[s]), "price"), HeadDefault)
    /\ out[s].view = "reviews"
         => out[s].rows =
              Head_(StableDescending(ReviewedBetween(df[s], minimum[s], maximum[s]),
                                     "number_of_reviews"), HeadReviews)

\* C8: the Table is never mutated after load: the cached Table and every
\* session's df equal the rows read from the CSV, whatever has run since.
C8_TableReadOnly ==
  /\ \A e \in get_data_cache : e.value = remote
  /\ \A s \in Sessions : Loaded(s) => df[s] = remote
C8_Witness ==
  \E s \in Sessions :
    /\ pc[s] = "done" /\ out[s].view = "reviews"
    /\ Cardinality(availability_cache) >= 2
    /\ df[s] = remote /\ Len(remote) = MaxRows

\* C9: the filter of get_availability returns exactly the rows satisfying all
\* its clauses, in file order, never a row whose compared price is absent, and
\* filtering its result again changes nothing; the price filters of the map,
\* top-5 and histogram never return a row with an absent price.
C9_FilterExact ==
  \A s \in Sessions :
    /\ (pc[s] = "plot" /\ out[s].view = "availability") =>
         LET rows == AvailabilityRows(df[s], show_exp[s], neighborhood[s])
         IN /\ Range(rows) =
                 { r \in Range(df[s]) :
                     /\ r.neighbourhood_group = neighborhood[s]
                     /\ r.availability_365 > 0
                     /\ show_exp[s] = " and price<200"
                          => (r.price # NaN /\ r.price < CheapBelow) }
            /\ InFileOrder(rows)
            /\ Len(rows) = out[s].summary.count
            /\ AvailabilityRows(rows, show_exp[s], neighborhood[s]) = rows
    /\ out[s].view \in {"top5", "histogram"} =>
         /\ \A r \in Range(out[s].rows) : r.price # NaN /\ r \in Range(df[s])
         /\ out[s].view = "histogram" => InFileOrder(out[s].rows)
C9_Witness ==
  \E s \in Sessions :
    /\ pc[s] = "plot" /\ out[s].view = "availability"
    /\ show_exp[s] = " and price<200"
    /\ out[s].summary.count >= 1
    /\ \E r \in Range(df[s]) :
         /\ r.neighbourhood_group = neighborhood[s]
         /\ r.availability_365 > 0 /\ r.price = NaN
    /\ \E r \in Range(df[s]) :
         /\ r.neighbourhood_group = neighborhood[s]
         /\ r.availability_365 > 0 /\ r.price >= CheapBelow

=============================================================================
